---- MODULE Spec2Model ----
(***************************************************************************)
(* In-place removal of the label / macro associated images of an SVS       *)
(* (classic little-endian TIFF) container: delete_associated_image of      *)
(* deidentification.py.  The file is modelled byte by byte; the container  *)
(* parser (tiffparser.TiffFile) is modelled by what it reads from those    *)
(* bytes: the IFD chain from the header, each IFD's 12-byte tag entries,   *)
(* and the tag values.                                                     *)
(***************************************************************************)
EXTENDS Integers, Naturals, Sequences, FiniteSets, TLC

\* ---------------------------------------------------------------- bounds
MaxPages == 3
MaxStrips == 2

\* ------------------------------------------------- format descriptor
\* classic TIFF: t.tiff.ifdoffsetsize, t.tiff.tagnosize, t.tiff.tagsize
offsetsize == 4
tagnosize == 2
tagsize == 12
HeaderSize == 8

\* TIFF tag codes and field types
TagImageDescription == 270
TagStripOffsets == 273
TagStripByteCounts == 279
TypeAscii == 2
TypeShort == 3
TypeLong == 4

TypeSize(t) == CASE t = TypeAscii -> 1 [] t = TypeShort -> 2 [] t = TypeLong -> 4 [] OTHER -> 1

\* ---------------------------------------------------------------- bytes
Max(a, b) == IF a >= b THEN a ELSE b
Min(a, b) == IF a <= b THEN a ELSE b

RECURSIVE Pow256(_)
Pow256(n) == IF n = 0 THEN 1 ELSE 256 * Pow256(n - 1)

\* struct.pack('<H' / '<I', v): n little-endian bytes of v
pack(n, v) == [i \in 1..n |-> (v \div Pow256(i - 1)) % 256]

\* the byte at absolute offset o (a read past the end yields no byte; 0 here)
At(f, o) == IF o >= 0 /\ o < Len(f) THEN f[o + 1] ELSE 0

\* fp.seek(o); fp.read(n)
ReadBytes(f, o, n) == [i \in 1..n |-> At(f, o + i - 1)]

RECURSIVE unpackAt(_, _, _)
\* struct.unpack of n little-endian bytes at offset o
unpackAt(f, o, n) == IF n = 0 THEN 0 ELSE At(f, o) + 256 * unpackAt(f, o + 1, n - 1)

\* fp.seek(o); fp.write(bs): overwrites in place, extends the file when the
\* write runs past its end (a gap is zero-filled)
WriteBytes(f, o, bs) ==
    [i \in 1..Max(Len(f), o + Len(bs)) |->
        IF i - 1 >= o /\ i - 1 < o + Len(bs) THEN bs[i - o]
        ELSE IF i <= Len(f) THEN f[i] ELSE 0]

Zeros(n) == [i \in 1..n |-> 0]

\* fp.seek(o); fp.write(b'\0' * n)
WriteZeros(f, o, n) == IF n <= 0 THEN f ELSE WriteBytes(f, o, Zeros(n))

RECURSIVE Concat(_)
Concat(ss) == IF ss = <<>> THEN <<>> ELSE Head(ss) \o Concat(Tail(ss))

\* ------------------------------------------------------- descriptions
\* ImageDescription texts as ASCII codes
DescNone == <<>>
DescUpper == <<76, 97, 98, 101, 108>>
DescLabel == <<120, 108, 97, 98, 101, 108>>
DescMacro == <<109, 97, 99, 114, 111, 49>>

\* the category names
CatBytes(c) == CASE c = "label" -> <<108, 97, 98, 101, 108>>
                 [] c = "macro" -> <<109, 97, 99, 114, 111>>
                 [] OTHER -> <<116, 104, 117, 109, 98>>

\* Python's  sub in text
Contains(text, sub) ==
    \E i \in 1..(Len(text) - Len(sub) + 1) : SubSeq(text, i, i + Len(sub) - 1) = sub

\* ------------------------------------------------ well-formed containers
\* A page of a generated container: its description text and strip count.
PageKinds ==
    { [desc |-> d, nstrips |-> n] :
        d \in {DescLabel, DescMacro}, n \in {1, MaxStrips} }
    \cup { [desc |-> DescNone, nstrips |-> 1], [desc |-> DescUpper, nstrips |-> MaxStrips] }

StripBytes(k) == k + 1

RECURSIVE SumStripBytes(_)
SumStripBytes(n) == IF n = 0 THEN 0 ELSE StripBytes(n) + SumStripBytes(n - 1)

KindNumTags(kind) == IF kind.desc = DescNone THEN 2 ELSE 3
KindIfdSize(kind) == tagnosize + KindNumTags(kind) * tagsize + offsetsize
\* a value longer than the entry's 4-byte value field is stored out of line
OutOfLine(count, type) == count * TypeSize(type) > offsetsize
KindDescOut(kind) ==
    IF kind.desc # DescNone /\ OutOfLine(Len(kind.desc) + 1, TypeAscii)
    THEN Len(kind.desc) + 1 ELSE 0
KindOffsOut(kind) == IF OutOfLine(kind.nstrips, TypeLong) THEN kind.nstrips * 4 ELSE 0
KindCntsOut(kind) == IF OutOfLine(kind.nstrips, TypeShort) THEN kind.nstrips * 2 ELSE 0
KindSize(kind) ==
    KindIfdSize(kind) + KindDescOut(kind) + KindOffsOut(kind) + KindCntsOut(kind)
    + SumStripBytes(kind.nstrips)

PadTo(bs, n) == bs \o Zeros(n - Len(bs))

\* one 12-byte directory entry: code, type, count, value-or-offset
Entry(code, type, count, valuebytes, outoffset) ==
    pack(2, code) \o pack(2, type) \o pack(4, count)
    \o (IF OutOfLine(count, type) THEN pack(offsetsize, outoffset)
        ELSE PadTo(valuebytes, offsetsize))

\* the bytes of one page placed at absolute offset base, chained to next
PageImage(kind, base, next) ==
    LET n == kind.nstrips
        descAt == base + KindIfdSize(kind)
        offsAt == descAt + KindDescOut(kind)
        cntsAt == offsAt + KindOffsOut(kind)
        dataAt == cntsAt + KindCntsOut(kind)
        stripAt(k) == dataAt + SumStripBytes(k - 1)
        descVal == kind.desc \o <<0>>
        offsVal == Concat([k \in 1..n |-> pack(4, stripAt(k))])
        cntsVal == Concat([k \in 1..n |-> pack(2, StripBytes(k))])
        descEntry == IF kind.desc = DescNone THEN <<>>
                     ELSE Entry(TagImageDescription, TypeAscii, Len(descVal), descVal, descAt)
    IN  pack(tagnosize, KindNumTags(kind))
        \o descEntry
        \o Entry(TagStripOffsets, TypeLong, n, offsVal, offsAt)
        \o Entry(TagStripByteCounts, TypeShort, n, cntsVal, cntsAt)
        \o pack(offsetsize, next)
        \o (IF KindDescOut(kind) > 0 THEN descVal ELSE <<>>)
        \o (IF KindOffsOut(kind) > 0 THEN offsVal ELSE <<>>)
        \o (IF KindCntsOut(kind) > 0 THEN cntsVal ELSE <<>>)
        \o Concat([k \in 1..n |-> [j \in 1..StripBytes(k) |-> 160 + k]])

RECURSIVE PagesImage(_, _)
PagesImage(kinds, base) ==
    IF kinds = <<>> THEN <<>>
    ELSE LET end == base + KindSize(Head(kinds))
         IN  PageImage(Head(kinds), base, IF Len(kinds) = 1 THEN 0 ELSE end)
             \o PagesImage(Tail(kinds), end)

\* header: byte order 'II', magic 42, offset of the first directory
Container(kinds) ==
    <<73, 73>> \o pack(2, 42) \o pack(offsetsize, HeaderSize) \o PagesImage(kinds, HeaderSize)

KindSeqs == UNION { [1..n -> PageKinds] : n \in 1..MaxPages }
Containers == { Container(ks) : ks \in KindSeqs }

\* ------------------------------------------------------ container parser
\* tiffparser.TiffFile(fp): everything below is read from the file's bytes.
FirstIfdOffset(f) == unpackAt(f, 4, offsetsize)
NumTags(f, off) == unpackAt(f, off, tagnosize)
NextIfdOffset(f, off) == off + tagnosize + NumTags(f, off) * tagsize
NextIfdValue(f, off) == unpackAt(f, NextIfdOffset(f, off), offsetsize)

RECURSIVE WalkPages(_, _, _)
\* t.pages: the directories reached from off; the walk ends at the sentinel 0,
\* at an offset outside the file, or at a directory already visited
WalkPages(f, off, seen) ==
    IF off = 0 \/ off >= Len(f) \/ off \in seen THEN <<>>
    ELSE <<off>> \o WalkPages(f, NextIfdValue(f, off), seen \cup {off})

PageOffsets(f) == WalkPages(f, FirstIfdOffset(f), {})

\* the k-th tag of the directory at off: tag.code, tag.count, tag.valueoffset
TagAt(f, off, k) ==
    LET e == off + tagnosize + (k - 1) * tagsize
        type == unpackAt(f, e + 2, 2)
        count == unpackAt(f, e + 4, 4)
    IN  [code |-> unpackAt(f, e, 2),
         type |-> type,
         count |-> count,
         valueoffset |-> IF OutOfLine(count, type) THEN unpackAt(f, e + 8, offsetsize)
                         ELSE e + 8]

\* page.tags
PageTags(f, off) == [k \in 1..NumTags(f, off) |-> TagAt(f, off, k)]

\* tag.value of a numeric tag: count values of the tag's type
TagValue(f, tag) ==
    [i \in 1..tag.count |->
        unpackAt(f, tag.valueoffset + (i - 1) * TypeSize(tag.type), TypeSize(tag.type))]

TagsWithCode(tags, code) == SelectSeq(tags, LAMBDA t : t.code = code)

RECURSIVE StripNull(_)
StripNull(bs) ==
    IF bs # <<>> /\ bs[Len(bs)] = 0 THEN StripNull(SubSeq(bs, 1, Len(bs) - 1)) ELSE bs

\* page.description: the ImageDescription text, '' when the page has none
Description(f, off) ==
    LET ds == TagsWithCode(PageTags(f, off), TagImageDescription)
    IN  IF ds = <<>> THEN <<>>
        ELSE StripNull(ReadBytes(f, ds[1].valueoffset, ds[1].count))

\* a parsed page as the code uses it
Page(f, off) ==
    LET tags == PageTags(f, off)
    IN  [offset |-> off,
         tags |-> tags,
         StripOffsets |-> TagValue(f, TagsWithCode(tags, TagStripOffsets)[1]),
         StripByteCounts |-> TagValue(f, TagsWithCode(tags, TagStripByteCounts)[1])]

\* ------------------------------------------- delete_associated_image
\* faulty variant: a third category let through the argument test
allowed_image_types_wide == {"label", "macro", "thumbnail"}
allowed_image_types == {"label", "macro"}
\* the image_type arguments tried: the two categories and one outside them
ImageTypes == allowed_image_types \cup {"thumbnail"}

\* faulty variant: the containment test the wrong way round
\* (page.description in image_type), which an empty description satisfies
FilteredPagesReversed(f, image_type) ==
    SelectSeq(PageOffsets(f), LAMBDA o : Contains(CatBytes(image_type), Description(f, o)))

\* faulty variant: the scan stops at the first matching page
FilteredPagesFirst(f, image_type) ==
    LET all == SelectSeq(PageOffsets(f),
                         LAMBDA o : Contains(Description(f, o), CatBytes(image_type)))
    IN  IF all = <<>> THEN all ELSE <<all[1]>>

\* [page for page in t.pages if image_type in page.description]
FilteredPages(f, image_type) ==
    SelectSeq(PageOffsets(f), LAMBDA o : Contains(Description(f, o), CatBytes(image_type)))

\* one element of ifds: this, next_ifd_offset, next_ifd_value read back from the file
Ifd(f, off) ==
    [this |-> off,
     next_ifd_offset |-> NextIfdOffset(f, off),
     next_ifd_value |-> NextIfdValue(f, off)]

\* ifds = [{'this': p.offset} for p in t.pages], then filled in by the loop
Ifds(f) == [k \in 1..Len(PageOffsets(f)) |-> Ifd(f, PageOffsets(f)[k])]

\* [i for i in ifds if i['this'] == page.offset]
PageIfds(ifds, off) == SelectSeq(ifds, LAMBDA i : i.this = off)
\* faulty variant: the predecessor looked up by 'this' instead of 'next_ifd_value'
PrevIfdsSelf(ifds, off) == SelectSeq(ifds, LAMBDA i : i.this = off)
\* [i for i in ifds if i['next_ifd_value'] == page.offset]
PrevIfds(ifds, off) == SelectSeq(ifds, LAMBDA i : i.next_ifd_value = off)

RECURSIVE EraseStrips(_, _, _, _)
\* for (o, b) in zip(offsets, bytecounts): fp.seek(o); fp.write(b'\0' * b)
EraseStrips(f, offsets, bytecounts, k) ==
    IF k > Min(Len(offsets), Len(bytecounts)) THEN f
    ELSE EraseStrips(WriteZeros(f, offsets[k], bytecounts[k]), offsets, bytecounts, k + 1)

ErasedImageData(f, pg) == EraseStrips(f, pg.StripOffsets, pg.StripByteCounts, 1)

\* fp.seek(tag.valueoffset); fp.write(b'\0' * tag.count)
EraseTag(f, tag) == WriteZeros(f, tag.valueoffset, tag.count)

RECURSIVE EraseTags(_, _, _)
\* for key, tag in page.tags.items(): ...
EraseTags(f, tags, k) ==
    IF k > Len(tags) THEN f ELSE EraseTags(EraseTag(f, tags[k]), tags, k + 1)

ErasedTagValues(f, pg) == EraseTags(f, pg.tags, 1)

\* pagebytes = (pageifd['next_ifd_offset'] - pageifd['this']) + offsetsize
pagebytes(pifd) == (pifd.next_ifd_offset - pifd.this) + offsetsize

\* fp.seek(pageifd['this']); fp.write(b'\0' * pagebytes)
ZeroedPageHeader(f, pifd) == WriteZeros(f, pifd.this, pagebytes(pifd))

\* faulty variant: the patch writes the sentinel instead of the removed page's pointer
PatchedPrevZero(f, prev, pifd) ==
    WriteBytes(f, prev.next_ifd_offset, pack(offsetsize, 0))

\* faulty variant: the patch writes the removed page's own offset back
PatchedPrevStale(f, prev, pifd) ==
    WriteBytes(f, prev.next_ifd_offset, pack(offsetsize, pifd.this))

\* faulty variant: the patch seeks to the predecessor's start, not to its pointer slot
PatchedPrevAtThis(f, prev, pifd) ==
    WriteBytes(f, prev.this, pack(offsetsize, pifd.next_ifd_value))

\* fp.seek(previfd['next_ifd_offset']); fp.write(pack(offsetformat, pageifd['next_ifd_value']))
PatchedPrev(f, prev, pifd) ==
    WriteBytes(f, prev.next_ifd_offset, pack(offsetsize, pifd.next_ifd_value))

\* the whole function on file bytes f: the bytes it leaves and how it ended
\* ("invalid", "duplicate" and "nopred" are the three raises)
delete_associated_image(f, t) ==
    IF t \notin allowed_image_types THEN [file |-> f, outcome |-> "invalid"]
    ELSE LET filtered_pages == FilteredPages(f, t)
             ifds == Ifds(f)
         IN  IF Len(filtered_pages) > 1 THEN [file |-> f, outcome |-> "duplicate"]
             ELSE IF Len(filtered_pages) = 0 THEN [file |-> f, outcome |-> "nomatch"]
             ELSE IF Len(PrevIfds(ifds, filtered_pages[1])) = 0
                  THEN [file |-> f, outcome |-> "nopred"]
             ELSE LET pg == Page(f, filtered_pages[1])
                      pifd == PageIfds(ifds, filtered_pages[1])[1]
                      prev == PrevIfds(ifds, filtered_pages[1])[1]
                      f1 == ErasedImageData(f, pg)
                      f2 == ErasedTagValues(f1, pg)
                      f3 == ZeroedPageHeader(f2, pifd)
                  IN  [file |-> PatchedPrev(f3, prev, pifd), outcome |-> "ok"]

Raised(how) == how \in {"invalid", "duplicate", "nopred"}

NoPage == [offset |-> 0, tags |-> <<>>, StripOffsets |-> <<>>, StripByteCounts |-> <<>>]
NoIfd == [this |-> 0, next_ifd_offset |-> 0, next_ifd_value |-> 0]

VARIABLES
    file,        \* the bytes of the container at slide_path
    pc,          \* position inside delete_associated_image, "idle" between calls
    image_type,  \* argument of the current / last call
    page,        \* filtered_pages[0]
    pageifd,
    previfd,
    outcome,     \* how the last call ended
    file0,       \* the file's bytes when the current / last call started
    orig,        \* the container as first written
    removed,     \* offsets of the pages unlinked so far
    opened       \* whether the current / last call opened the file

\* state of the batch drivers around delete_associated_image
VARIABLES
    driver,             \* which script runs the batch
    inputs,             \* the files of the input directory, in listing order
    idx,                \* position of the loop over inputs
    bpc,                \* position inside the driver's loop body
    temp_output,        \* the working copy of the current file, or NoFile
    output_dir,         \* the files delivered to the output directory
    log,                \* the rows appended to the log file
    log_dict,           \* the one dict object of deidentification.py
    log_list,           \* deidentification.py's list of references to dicts
    folder_file_count,
    successful_files,
    failed_files,
    printed,            \* the "Failed to deidentify" messages printed
    caught,             \* the exception the driver's except clause holds, or "none"
    calls               \* every invocation of delete_associated_image so far

vars == <<file, pc, image_type, page, pageifd, previfd, outcome, file0, orig, removed, opened>>
bvars == <<driver, inputs, idx, bpc, temp_output, output_dir, log, log_dict, log_list,
           folder_file_count, successful_files, failed_files, printed, caught, calls>>
allvars == <<vars, bvars>>

NoFile == <<>>

\* the batch drivers at rest: the state of bvars while one call is studied alone
BatchAtRest ==
    /\ driver = "none"
    /\ inputs = <<>>
    /\ idx = 1
    /\ bpc = "done"
    /\ temp_output = NoFile
    /\ output_dir = <<>>
    /\ log = <<>>
    /\ log_dict = <<>>
    /\ log_list = <<>>
    /\ folder_file_count = <<>>
    /\ successful_files = 0
    /\ failed_files = 0
    /\ printed = <<>>
    /\ caught = "none"
    /\ calls = <<>>

Init ==
    /\ file \in Containers
    /\ pc = "idle"
    /\ image_type = "label"
    /\ page = NoPage
    /\ pageifd = NoIfd
    /\ previfd = NoIfd
    /\ outcome = "none"
    /\ file0 = file
    /\ orig = file
    /\ removed = {}
    /\ opened = FALSE
    /\ BatchAtRest

\* a call that ends before the write phases, with the given outcome
Ends(how) ==
    /\ outcome' = how
    /\ pc' = "idle"
    /\ page' = NoPage
    /\ pageifd' = NoIfd
    /\ previfd' = NoIfd

\* lines 11-47: argument validation, parse, locate the page, find its predecessor
Call(t) ==
    /\ pc = "idle"
    /\ image_type' = t
    /\ file0' = file
    /\ UNCHANGED <<file, orig, removed>>
    /\ UNCHANGED bvars
    \* line 15 is reached only past the raise of line 13
    /\ opened' = (t \in allowed_image_types)
    /\ IF t \notin allowed_image_types THEN Ends("invalid")
       ELSE LET filtered_pages == FilteredPages(file, t)
                ifds == Ifds(file)
            IN  IF Len(filtered_pages) > 1 THEN Ends("duplicate")
                ELSE IF Len(filtered_pages) = 0 THEN Ends("nomatch")
                ELSE IF Len(PrevIfds(ifds, filtered_pages[1])) = 0 THEN Ends("nopred")
                ELSE /\ page' = Page(file, filtered_pages[1])
                     /\ pageifd' = PageIfds(ifds, filtered_pages[1])[1]
                     /\ previfd' = PrevIfds(ifds, filtered_pages[1])[1]
                     /\ outcome' = "running"
                     /\ pc' = "erase_data"

\* faulty variant: the pointer patch moved ahead of the erasure
PatchBeforeErase ==
    /\ pc = "erase_data"
    /\ file' = ErasedImageData(PatchedPrev(file, previfd, pageifd), page)
    /\ pc' = "erase_tags"
    /\ UNCHANGED <<image_type, page, pageifd, previfd, outcome, file0, orig, removed, opened>>
    /\ UNCHANGED bvars

\* lines 49-54
EraseImageData ==
    /\ pc = "erase_data"
    /\ file' = ErasedImageData(file, page)
    /\ pc' = "erase_tags"
    /\ UNCHANGED <<image_type, page, pageifd, previfd, outcome, file0, orig, removed, opened>>
    /\ UNCHANGED bvars

\* lines 56-59
EraseTagValues ==
    /\ pc = "erase_tags"
    /\ file' = ErasedTagValues(file, page)
    /\ pc' = "zero_header"
    /\ UNCHANGED <<image_type, page, pageifd, previfd, outcome, file0, orig, removed, opened>>
    /\ UNCHANGED bvars

\* lines 61-65
ZeroPageHeader ==
    /\ pc = "zero_header"
    /\ file' = ZeroedPageHeader(file, pageifd)
    /\ pc' = "patch"
    /\ UNCHANGED <<image_type, page, pageifd, previfd, outcome, file0, orig, removed, opened>>
    /\ UNCHANGED bvars

\* lines 67-69, and the return
PatchPrevious ==
    /\ pc = "patch"
    /\ file' = PatchedPrev(file, previfd, pageifd)
    /\ pc' = "idle"
    /\ outcome' = "ok"
    /\ removed' = removed \cup {page.offset}
    /\ UNCHANGED <<image_type, page, pageifd, previfd, file0, orig, opened>>
    /\ UNCHANGED bvars

Next ==
    \/ \E t \in ImageTypes : Call(t)
    \/ EraseImageData
    \/ EraseTagValues
    \/ ZeroPageHeader
    \/ PatchPrevious

Spec == Init /\ [][Next]_allvars

\* =========================================================== batch drivers
\* deidentification.py (plain), deidentify_python.py (python),
\* deidentify_s3.py (s3), deidentification_nf.py (nf)
MaxFiles == 2

KMain == [desc |-> DescNone, nstrips |-> 1]
KLabel == [desc |-> DescLabel, nstrips |-> 1]
KMacro == [desc |-> DescMacro, nstrips |-> 1]
\* slides met by a batch: both removals succeed; the label page is first, so
\* 'label' raises; 'label' succeeds and 'macro' raises on a duplicate;
\* nothing to remove
SlideClean == Container(<<KMain, KLabel, KMacro>>)
SlideLabelFirst == Container(<<KLabel, KMain>>)
SlideTwoMacros == Container(<<KMain, KLabel, KMacro, KMacro>>)
SlidePlain == Container(<<KMain>>)

\* the kinds of directory entry a batch is made of
InputKinds ==
    { [slide |-> sl, ext |-> ".svs", folder |-> "p", readable |-> TRUE] :
        sl \in {SlideClean, SlideLabelFirst, SlideTwoMacros, SlidePlain} }
    \cup { [slide |-> SlideClean, ext |-> ".svs", folder |-> "q", readable |-> TRUE],
           [slide |-> SlideClean, ext |-> ".svs", folder |-> "p", readable |-> FALSE],
           [slide |-> SlideClean, ext |-> ".SVS", folder |-> "p", readable |-> TRUE],
           [slide |-> SlidePlain, ext |-> ".txt", folder |-> "p", readable |-> TRUE] }

\* the directory listing: the i-th entry is named slide<i><ext>
InputsOf(kinds) ==
    [i \in 1..Len(kinds) |->
        [name |-> <<"slide", i, kinds[i].ext>>,
         ext |-> kinds[i].ext,
         folder |-> kinds[i].folder,
         data |-> kinds[i].slide,
         readable |-> kinds[i].readable]]

Drivers == {"plain", "python", "s3", "nf"}

\* str.lower() on an extension
Lower(ext) == IF ext = ".SVS" THEN ".svs" ELSE ext

\* the entries the driver's loop works on:
\* plain  f.endswith('.svs'); python, s3  filename.lower().endswith('.svs');
\* nf is started once per file it is given
Worklist(d, ins) ==
    CASE d = "plain" -> SelectSeq(ins, LAMBDA f : f.ext = ".svs")
      [] d \in {"python", "s3"} -> SelectSeq(ins, LAMBDA f : Lower(f.ext) = ".svs")
      [] OTHER -> ins

RECURSIVE Digits(_)
Digits(n) == IF n < 10 THEN <<n>> ELSE Digits(n \div 10) \o <<n % 10>>
\* f"{n:04d}"
Format04(n) == Zeros(4 - Len(Digits(n))) \o Digits(n)

\* f"DI_{idx:04d}.svs"
PlainName(i) == <<"DI", Format04(i), ".svs">>
\* f"DI_{folder_name}_{unique_id:04d}{ext}"
UniqueName(folder_name, unique_id, ext) == <<"DI", folder_name, Format04(unique_id), ext>>
\* f"{prefix}_{output_filename}"
PrefixedName(name) == <<"PX">> \o name

\* generate_unique_filename: the counter after the call
Counted(ffc, folder_name) ==
    [k \in DOMAIN ffc \cup {folder_name} |->
        IF k = folder_name THEN (IF k \in DOMAIN ffc THEN ffc[k] ELSE 0) + 1
        ELSE ffc[k]]
\* generate_unique_filename: the name returned
generate_unique_filename(ffc, folder_name, ext) ==
    UniqueName(folder_name, Counted(ffc, folder_name)[folder_name], ext)

\* folder_name passed by process_svs_files:
\* python  os.path.basename(input_dir); s3  os.path.basename(root)
FolderName(d, f) == IF d = "python" THEN "input" ELSE f.folder

\* faulty variant: the next statement runs although the call raised
AfterRemovalKeepGoing(t, how) == IF t = "label" THEN "macro" ELSE "success"

\* where control goes after delete_associated_image(path, t) inside the try:
\* to the except clause when it raised, else to the next statement
AfterRemoval(t, how) ==
    IF Raised(how) THEN "except" ELSE IF t = "label" THEN "macro" ELSE "success"

\* shutil.move / shutil.copyfile onto a path: a file already there is replaced
Put(dir, entry) ==
    SelectSeq(dir, LAMBDA e : ~(e.dir = entry.dir /\ e.name = entry.name)) \o <<entry>>

\* log_file_update: the row appended
LogRow(svs_file, new_filename, status) ==
    [Original_file_name |-> svs_file, Deidentified_file_name |-> new_filename,
     Status |-> status]

\* whether the call log_file_update(...) of the success path matches the
\* function's parameters: deidentify_python.py passes 7 arguments to a
\* function of 8 required parameters (TypeError); deidentify_s3.py 7 to 7
SuccessLogCallFits(d) == d # "python"

CoreIdle ==
    /\ file = <<>>
    /\ pc = "idle"
    /\ image_type = "label"
    /\ page = NoPage
    /\ pageifd = NoIfd
    /\ previfd = NoIfd
    /\ outcome = "none"
    /\ file0 = <<>>
    /\ orig = <<>>
    /\ removed = {}
    /\ opened = FALSE

InitBatch ==
    /\ CoreIdle
    /\ driver \in Drivers
    /\ \E n \in 1..MaxFiles : \E kinds \in [1..n -> InputKinds] : inputs = InputsOf(kinds)
    /\ idx = 1
    /\ bpc = IF Worklist(driver, inputs) = <<>> THEN "done" ELSE "start"
    /\ temp_output = NoFile
    /\ output_dir = <<>>
    /\ log = <<>>
    /\ log_dict = <<>>
    /\ log_list = <<>>
    /\ folder_file_count = <<>>
    /\ successful_files = 0
    /\ failed_files = 0
    /\ printed = <<>>
    /\ caught = "none"
    /\ calls = <<>>

Work == Worklist(driver, inputs)
\* position after the loop body for item idx
Advance ==
    /\ idx' = idx + 1
    /\ bpc' = IF idx + 1 > Len(Work) THEN "done" ELSE "start"

\* the path the removals work on: plain and nf copy straight to the output
\* path, python and s3 to the temporary output folder
WorkingDir == "out"
WorkingName == IF driver = "plain" THEN PlainName(idx) ELSE PrefixedName(Work[idx].name)
WorkingFile ==
    IF driver \in {"python", "s3"} THEN temp_output
    ELSE LET es == SelectSeq(output_dir,
                             LAMBDA e : e.dir = WorkingDir /\ e.name = WorkingName)
         IN  es[1].data

\* deidentification.py lines 84-99: names, the log record, the copy
PlainBegin ==
    /\ driver = "plain" /\ bpc = "start"
    /\ LET f == Work[idx]
           new_filename == PlainName(idx)
       IN  \* lines 91-95: the one dict is overwritten and appended again
           /\ log_dict' = [Original_file_name |-> f.name,
                           Deidentified_file_name |-> new_filename,
                           input_path |-> <<"in", f.name>>,
                           output_path |-> <<"out", new_filename>>]
           /\ log_list' = Append(log_list, "log_dict")
           /\ IF ~f.readable
              THEN \* line 99 raises outside the try: the run ends
                   /\ bpc' = "crashed"
                   /\ UNCHANGED output_dir
              ELSE /\ output_dir' = Put(output_dir, [dir |-> "out", name |-> new_filename,
                                                     data |-> f.data, src |-> f.name])
                   /\ bpc' = "label"
    /\ UNCHANGED <<driver, inputs, idx, temp_output, log, folder_file_count,
                   successful_files, failed_files, printed, caught, calls>>
    /\ UNCHANGED vars

\* deidentify_python.py lines 116-122, deidentify_s3.py lines 115-121: the
\* two copies at the start of deidentify_svs_file
FileBegin ==
    /\ driver \in {"python", "s3"} /\ bpc = "start"
    /\ IF ~Work[idx].readable
       THEN \* shutil.copy raises: nothing was copied
            /\ caught' = "copy"
            /\ bpc' = "except"
            /\ UNCHANGED temp_output
       ELSE /\ temp_output' = Work[idx].data
            /\ bpc' = "label"
            /\ UNCHANGED caught
    /\ UNCHANGED <<driver, inputs, idx, output_dir, log, log_dict, log_list,
                   folder_file_count, successful_files, failed_files, printed, calls>>
    /\ UNCHANGED vars

\* deidentification_nf.py lines 95-102: the prefixed path and the copy
NfBegin ==
    /\ driver = "nf" /\ bpc = "start"
    /\ IF ~Work[idx].readable
       THEN /\ caught' = "copy"
            /\ bpc' = "except"
            /\ UNCHANGED output_dir
       ELSE /\ output_dir' = Put(output_dir,
                                 [dir |-> "out", name |-> PrefixedName(Work[idx].name),
                                  data |-> Work[idx].data, src |-> Work[idx].name])
            /\ bpc' = "label"
            /\ UNCHANGED caught
    /\ UNCHANGED <<driver, inputs, idx, temp_output, log, log_dict, log_list,
                   folder_file_count, successful_files, failed_files, printed, calls>>
    /\ UNCHANGED vars

\* delete_associated_image(path, 'label') and (path, 'macro') inside the try:
\* deidentification.py 105-106, deidentify_python.py 125-126,
\* deidentify_s3.py 124-125, deidentification_nf.py 105-106
Remove ==
    /\ bpc \in {"label", "macro"}
    /\ LET r == delete_associated_image(WorkingFile, bpc)
       IN  /\ calls' = Append(calls, [item |-> idx, type |-> bpc, outcome |-> r.outcome])
           /\ IF driver \in {"python", "s3"}
              THEN temp_output' = r.file /\ UNCHANGED output_dir
              ELSE /\ output_dir' = Put(output_dir, [dir |-> WorkingDir, name |-> WorkingName,
                                                     data |-> r.file, src |-> Work[idx].name])
                   /\ UNCHANGED temp_output
           /\ caught' = IF Raised(r.outcome) THEN r.outcome ELSE caught
           /\ bpc' = AfterRemoval(bpc, r.outcome)
    /\ UNCHANGED <<driver, inputs, idx, log, log_dict, log_list, folder_file_count,
                   successful_files, failed_files, printed>>
    /\ UNCHANGED vars

\* deidentification.py lines 107-109: the two prints, then the next file
PlainEnd ==
    /\ driver = "plain" /\ bpc \in {"success", "except"}
    /\ printed' = IF bpc = "except" THEN Append(printed, Work[idx].name) ELSE printed
    /\ caught' = "none"
    /\ Advance
    /\ UNCHANGED <<driver, inputs, temp_output, output_dir, log, log_dict, log_list,
                   folder_file_count, successful_files, failed_files, calls>>
    /\ UNCHANGED vars

\* deidentify_python.py lines 128-150, deidentify_s3.py lines 127-147: the
\* rest of the try, and the except clause
FileEnd ==
    /\ driver \in {"python", "s3"} /\ bpc \in {"success", "except"}
    /\ LET f == Work[idx]
           folder_name == FolderName(driver, f)
           unique_filename == generate_unique_filename(folder_file_count, folder_name, f.ext)
           except ==
               /\ printed' = Append(printed, f.name)
               /\ log' = Append(log, LogRow(f.name, f.name, "Failed"))
               /\ failed_files' = failed_files + 1
               /\ UNCHANGED successful_files
       IN  IF bpc = "except" THEN except /\ UNCHANGED folder_file_count
           ELSE /\ folder_file_count' = Counted(folder_file_count, folder_name)
                /\ IF SuccessLogCallFits(driver)
                   THEN /\ log' = Append(log, LogRow(f.name, unique_filename, "Success"))
                        /\ successful_files' = successful_files + 1
                        /\ UNCHANGED <<failed_files, printed>>
                   ELSE \* the log call raises TypeError inside the try
                        except
    /\ caught' = "none"
    /\ bpc' = "move"
    /\ UNCHANGED <<driver, inputs, idx, temp_output, output_dir, log_dict, log_list, calls>>
    /\ UNCHANGED vars

\* faulty variant: the working copy is delivered only after a logged success
MoveFileIfSuccess ==
    /\ driver \in {"python", "s3"} /\ bpc = "move"
    /\ LET f == Work[idx]
           folder_name == FolderName(driver, f)
       IN  /\ folder_file_count' = Counted(folder_file_count, folder_name)
           /\ IF temp_output = NoFile
              THEN /\ bpc' = "crashed"
                   /\ UNCHANGED <<idx, output_dir, temp_output>>
              ELSE /\ output_dir' =
                        IF log[Len(log)].Status = "Success"
                        THEN Put(output_dir,
                                 [dir |-> f.folder,
                                  name |-> generate_unique_filename(folder_file_count, folder_name, f.ext),
                                  data |-> temp_output, src |-> f.name])
                        ELSE output_dir
                   /\ temp_output' = NoFile
                   /\ Advance
    /\ UNCHANGED <<driver, inputs, log, log_dict, log_list, successful_files,
                   failed_files, printed, caught, calls>>
    /\ UNCHANGED vars

\* deidentify_python.py lines 194-217, deidentify_s3.py lines 186-205:
\* the rest of the loop body of process_svs_files
MoveFile ==
    /\ driver \in {"python", "s3"} /\ bpc = "move"
    /\ LET f == Work[idx]
           folder_name == FolderName(driver, f)
       IN  /\ folder_file_count' = Counted(folder_file_count, folder_name)
           /\ IF temp_output = NoFile
              THEN \* shutil.move of a file that is not there raises: the run ends
                   /\ bpc' = "crashed"
                   /\ UNCHANGED <<idx, output_dir, temp_output>>
              ELSE /\ output_dir' =
                        Put(output_dir,
                            [dir |-> f.folder,
                             name |-> generate_unique_filename(folder_file_count, folder_name, f.ext),
                             data |-> temp_output, src |-> f.name])
                   /\ temp_output' = NoFile
                   /\ Advance
    /\ UNCHANGED <<driver, inputs, log, log_dict, log_list, successful_files,
                   failed_files, printed, caught, calls>>
    /\ UNCHANGED vars

\* deidentification_nf.py lines 107-130: the success log, or the except clause
NfEnd ==
    /\ driver = "nf" /\ bpc \in {"success", "except"}
    /\ LET f == Work[idx]
       IN  IF bpc = "except"
           THEN /\ printed' = Append(printed, f.name)
                /\ log' = Append(log, LogRow(f.name, f.name, "Failed"))
           ELSE /\ log' = Append(log, LogRow(f.name, PrefixedName(f.name), "Success"))
                /\ UNCHANGED printed
    /\ caught' = "none"
    /\ Advance
    /\ UNCHANGED <<driver, inputs, temp_output, output_dir, log_dict, log_list,
                   folder_file_count, successful_files, failed_files, calls>>
    /\ UNCHANGED vars

NextBatch ==
    \/ PlainBegin
    \/ FileBegin
    \/ NfBegin
    \/ Remove
    \/ PlainEnd
    \/ FileEnd
    \/ MoveFile
    \/ NfEnd

SpecBatch == InitBatch /\ [][NextBatch]_allvars

\* ===================================================== properties
\* Vocabulary of the properties, computed from the file's bytes when the
\* call started (file0) and now (file), not from the call's local variables.
SeqSet(q) == {q[k] : k \in 1..Len(q)}
Range(o, n) == o..(o + n - 1)
\* the offsets of the pages of f whose description contains the category
MatchSet(f, t) == {o \in SeqSet(PageOffsets(f)) : Contains(Description(f, o), CatBytes(t))}
\* the page the call was about (meaningful when exactly one page matched)
Target == CHOOSE o \in MatchSet(file0, image_type) : TRUE
\* the directory nodes of f whose chain pointer holds off
PredSet(f, off) == {o \in SeqSet(PageOffsets(f)) : NextIfdValue(f, o) = off}
TargetPred == CHOOSE o \in PredSet(file0, Target) : TRUE

RECURSIVE WalkEnd(_, _, _)
\* the pointer value at which the walk from the header stops
WalkEnd(f, off, seen) ==
    IF off = 0 \/ off >= Len(f) \/ off \in seen THEN off
    ELSE WalkEnd(f, NextIfdValue(f, off), seen \cup {off})
EndsAtSentinel(f) == WalkEnd(f, FirstIfdOffset(f), {}) = 0

Called == outcome # "none" /\ image_type \in allowed_image_types
Returned(how) == pc = "idle" /\ outcome = how

\* byte ranges of the page at off in f
PayloadBytes(f, off) ==
    LET pg == Page(f, off)
    IN  UNION {Range(pg.StripOffsets[k], pg.StripByteCounts[k]) : k \in 1..Len(pg.StripOffsets)}
TagValueBytes(f, off) ==
    UNION {Range(tg.valueoffset, tg.count * TypeSize(tg.type)) : tg \in SeqSet(PageTags(f, off))}
OutOfLineValueBytes(f, off) ==
    UNION {Range(tg.valueoffset, tg.count * TypeSize(tg.type)) :
             tg \in {x \in SeqSet(PageTags(f, off)) : OutOfLine(x.count, x.type)}}
DirectoryBytes(f, off) == Range(off, NextIfdOffset(f, off) + offsetsize - off)
PointerSlotBytes(f, off) == Range(NextIfdOffset(f, off), offsetsize)
AllZero(f, region) == \A i \in region : At(f, i) = 0
SameOutside(f, g, region) ==
    /\ Len(f) = Len(g)
    /\ \A i \in 0..(Len(f) - 1) : i \notin region => At(f, i) = At(g, i)
Without(q, off) == SelectSeq(q, LAMBDA o : o # off)

\* C1: after a call that removed the single matching page returns, the chain
\* from the header is the chain as it was at the call minus that page, in the
\* same order, and ends at the sentinel.
C1_ChainMinusTarget ==
    Returned("ok") =>
        /\ Cardinality(MatchSet(file0, image_type)) = 1
        /\ PageOffsets(file) = Without(PageOffsets(file0), Target)
        /\ Len(PageOffsets(file)) = Len(PageOffsets(file0)) - 1
        /\ EndsAtSentinel(file)

\* C1 witness: a middle page of a three-page chain has been removed
C1_Witness ==
    /\ Returned("ok")
    /\ Len(PageOffsets(file0)) = 3
    /\ Target = PageOffsets(file0)[2]
    /\ Len(PageOffsets(file)) = 2

\* C2: after a successful removal every byte of the removed page's payload
\* ranges, of its out-of-line tag value ranges (value offset through value
\* offset + byte length) and of its directory region is zero.
C2_AllTargetBytesZero ==
    Returned("ok") =>
        /\ AllZero(file, PayloadBytes(file0, Target))
        /\ AllZero(file, OutOfLineValueBytes(file0, Target))
        /\ AllZero(file, DirectoryBytes(file0, Target))

\* C3: after a successful removal the predecessor's chain-pointer slot holds
\* the next pointer value the removed page had when the call started.
C3_PredecessorRelinked ==
    Returned("ok") =>
        unpackAt(file, NextIfdOffset(file0, TargetPred), offsetsize)
            = NextIfdValue(file0, Target)

\* C3 witness: a page followed by another page was removed, so the value
\* written is not the sentinel
C3_Witness ==
    /\ Returned("ok")
    /\ NextIfdValue(file0, Target) # 0
    /\ unpackAt(file, NextIfdOffset(file0, TargetPred), offsetsize) # 0

\* C4: a call for a category no page's description contains returns normally
\* with the no-match outcome and leaves every byte of the file as it was.
C4_NoMatchNoWrite ==
    (Called /\ MatchSet(file0, image_type) = {}) =>
        /\ Returned("nomatch")
        /\ file = file0

\* C4 witness: a no-match call on a container that does hold a page of the
\* other category
C4_Witness ==
    /\ Returned("nomatch")
    /\ image_type = "label"
    /\ MatchSet(file0, "macro") # {}

\* C5: a call for a category two or more pages match ends with the
\* duplicate-match error and the file's bytes are unchanged.
C5_DuplicateNoWrite ==
    (Called /\ Cardinality(MatchSet(file0, image_type)) >= 2) =>
        /\ Returned("duplicate")
        /\ file = file0

\* C5 witness: the duplicate error on a container with two macro pages
C5_Witness ==
    /\ Returned("duplicate")
    /\ image_type = "macro"
    /\ Cardinality(MatchSet(file0, "macro")) = 2

\* C6: when no directory node's next pointer value equals the located page's
\* offset, the call ends with the structural-integrity error and the file's
\* bytes are unchanged.
C6_NoPredecessorNoWrite ==
    (Called /\ Cardinality(MatchSet(file0, image_type)) = 1 /\ PredSet(file0, Target) = {}) =>
        /\ Returned("nopred")
        /\ file = file0

\* C6 witness: the error was raised for a located page
C6_Witness ==
    /\ Returned("nopred")
    /\ Cardinality(MatchSet(file0, image_type)) = 1
    /\ PredSet(file0, Target) = {}

\* C7 as stated: with exactly one matching page, wherever it sits, the page
\* has exactly one predecessor node and the zero-predecessor error never occurs.
C7_Original ==
    (Called /\ Cardinality(MatchSet(file0, image_type)) = 1) =>
        /\ Cardinality(PredSet(file0, Target)) = 1
        /\ outcome # "nopred"

\* C7 amended: with exactly one matching page, a page that is not the first
\* of the chain has exactly one predecessor node and the error does not
\* occur; the first page, referenced only by the header, has no predecessor
\* node and the call ends with the zero-predecessor error.
C7_PredecessorUnlessFirst ==
    (Called /\ Cardinality(MatchSet(file0, image_type)) = 1) =>
        IF Target = FirstIfdOffset(file0)
        THEN PredSet(file0, Target) = {} /\ outcome = "nopred"
        ELSE Cardinality(PredSet(file0, Target)) = 1 /\ outcome # "nopred"

\* C7 witness: the last page of a three-page chain was located and removed
C7_Witness ==
    /\ Returned("ok")
    /\ Len(PageOffsets(file0)) = 3
    /\ Target = PageOffsets(file0)[3]
    /\ Cardinality(PredSet(file0, Target)) = 1

\* C8: a successful removal keeps the file length and changes no byte outside
\* the removed page's payload ranges, tag value ranges and directory region
\* and the predecessor's pointer slot; the header's first-directory field is
\* untouched.
C8_FrameOfRemoval ==
    Returned("ok") =>
        /\ Len(file) = Len(file0)
        /\ SameOutside(file, file0,
                PayloadBytes(file0, Target) \cup TagValueBytes(file0, Target)
                \cup DirectoryBytes(file0, Target) \cup PointerSlotBytes(file0, TargetPred))
        /\ FirstIfdOffset(file) = FirstIfdOffset(file0)
        /\ \A o \in SeqSet(PageOffsets(file)) \ {TargetPred} :
              ReadBytes(file, o, NextIfdOffset(file0, o) + offsetsize - o)
                = ReadBytes(file0, o, NextIfdOffset(file0, o) + offsetsize - o)

\* C8 witness: a removal from a chain that has another page besides the
\* removed page and its predecessor
C8_Witness ==
    /\ Returned("ok")
    /\ Len(PageOffsets(file)) = 2
    /\ file # file0

\* C9: the writes come in the order payload, tag values, directory, pointer
\* patch; from the first write until the patch the predecessor's pointer
\* still holds the target's offset while the target's payload is zero.
C9_WriteOrder ==
    /\ pc = "erase_data" => file = file0
    /\ pc = "erase_tags" =>
          /\ AllZero(file, PayloadBytes(file0, Target))
          /\ SameOutside(file, file0, PayloadBytes(file0, Target))
    /\ pc = "zero_header" =>
          /\ AllZero(file, PayloadBytes(file0, Target))
          /\ At(file, Target) # 0
          /\ SameOutside(file, file0,
                PayloadBytes(file0, Target) \cup TagValueBytes(file0, Target))
    /\ pc = "patch" =>
          /\ AllZero(file, PayloadBytes(file0, Target))
          /\ AllZero(file, DirectoryBytes(file0, Target))
          /\ SameOutside(file, file0,
                PayloadBytes(file0, Target) \cup TagValueBytes(file0, Target)
                \cup DirectoryBytes(file0, Target))
    /\ pc \in {"erase_tags", "zero_header", "patch"} =>
          unpackAt(file, NextIfdOffset(file0, TargetPred), offsetsize) = Target

\* C9 witness: directory zeroed, pointer not yet patched
C9_Witness ==
    /\ pc = "patch"
    /\ AllZero(file, DirectoryBytes(file0, Target))
    /\ NextIfdValue(file, TargetPred) = Target

\* C10: between calls the chain from the header visits exactly the surviving
\* pages, each once, in their original order, ends at the sentinel, and no
\* two reachable nodes hold the same next pointer value.
C10_ChainInvariant ==
    pc = "idle" =>
        LET chain == PageOffsets(file)
        IN  /\ chain = SelectSeq(PageOffsets(orig), LAMBDA o : o \notin removed)
            /\ EndsAtSentinel(file)
            /\ \A i, j \in 1..Len(chain) :
                  i # j => /\ chain[i] # chain[j]
                           /\ NextIfdValue(file, chain[i]) # NextIfdValue(file, chain[j])
            /\ \A i \in 1..Len(chain) : Cardinality(PredSet(file, chain[i])) <= 1

\* C10 witness: both a label and a macro page have been removed
C10_Witness ==
    /\ pc = "idle"
    /\ Cardinality(removed) = 2
    /\ Len(PageOffsets(file)) = Len(PageOffsets(orig)) - 2

\* C11: a call with a category other than label and macro ends with the
\* invalid-category error without opening the file; the file is unchanged.
C11_InvalidBeforeOpen ==
    (outcome # "none" /\ image_type \notin {"label", "macro"}) =>
        /\ Returned("invalid")
        /\ ~opened
        /\ file = file0

\* C11 witness: the invalid category was refused on a container that still
\* holds a label page
C11_Witness ==
    /\ Returned("invalid")
    /\ image_type = "thumbnail"
    /\ MatchSet(file, "label") # {}

\* C12: a call for the category of the call before it, when that call ended
\* with no match or with a successful removal, ends with no match and leaves
\* every byte of the file as it was.
C12_Idempotent ==
    [][(pc = "idle" /\ outcome \in {"ok", "nomatch"} /\ image_type' = image_type) =>
          (outcome' = "nomatch" /\ pc' = "idle" /\ file' = file /\ file0' = file)]_allvars

\* C12 witness: a call found no match for a category whose page an earlier
\* call had removed
C12_Witness ==
    /\ Returned("nomatch")
    /\ MatchSet(orig, image_type) # {}
    /\ MatchSet(orig, image_type) \subseteq removed
    /\ file = file0

\* one label page and one other macro page, neither first in the chain
PairPre(f) ==
    /\ Cardinality(MatchSet(f, "label")) = 1
    /\ Cardinality(MatchSet(f, "macro")) = 1
    /\ MatchSet(f, "label") \cap MatchSet(f, "macro") = {}
    /\ FirstIfdOffset(f) \notin MatchSet(f, "label") \cup MatchSet(f, "macro")
\* delete_associated_image(path, a) followed by delete_associated_image(path, b)
Both(f, a, b) ==
    LET r1 == delete_associated_image(f, a)
        r2 == delete_associated_image(r1.file, b)
    IN  [file |-> r2.file, outcomes |-> <<r1.outcome, r2.outcome>>]
ChainMinusPair(f) ==
    SelectSeq(PageOffsets(f),
              LAMBDA o : o \notin MatchSet(f, "label") \cup MatchSet(f, "macro"))

\* C13: on a container with one label page and one other macro page, neither
\* first, removal of label then macro succeeds twice and leaves the original
\* chain minus the two pages, as does macro then label, adjacent pages included.
C13_LabelThenMacro ==
    PairPre(orig) =>
        /\ Called => outcome \in {"running", "ok", "nomatch"}
        /\ (Called /\ outcome = "nomatch") => MatchSet(orig, image_type) \subseteq removed
        /\ (pc = "idle" /\ removed = MatchSet(orig, "label") \cup MatchSet(orig, "macro")) =>
              PageOffsets(file) = ChainMinusPair(orig)
        /\ LET lm == Both(orig, "label", "macro")
               ml == Both(orig, "macro", "label")
           IN  /\ lm.outcomes = <<"ok", "ok">>
               /\ ml.outcomes = <<"ok", "ok">>
               /\ PageOffsets(lm.file) = ChainMinusPair(orig)
               /\ PageOffsets(ml.file) = PageOffsets(lm.file)

\* C13 witness: the macro page that directly followed the label page has been
\* removed after the label page
C13_Witness ==
    /\ PairPre(orig)
    /\ Returned("ok")
    /\ image_type = "macro"
    /\ Cardinality(removed) = 2
    /\ \E l \in MatchSet(orig, "label") : NextIfdValue(orig, l) \in MatchSet(orig, "macro")

\* ------------------------------------------------------ batch properties
\* the calls made for work item i, in order
CallsFor(i) == SelectSeq(calls, LAMBDA c : c.item = i)
LabelRaised(i) ==
    \E k \in 1..Len(calls) :
        calls[k].item = i /\ calls[k].type = "label" /\ Raised(calls[k].outcome)
\* the driver is past its except clause for item i
Handled(i) == idx > i \/ (idx = i /\ bpc = "move")
InSeq(x, s) == \E k \in 1..Len(s) : s[k] = x

\* C14: in every batch driver, when the removal of 'label' raises for a file
\* the removal of 'macro' is not attempted for it, the exception is caught and
\* reported for that file, the run goes on to the next file, and the core is
\* never invoked again for the failed file.
C14_LabelFailureStopsFile ==
    /\ \A k \in 1..Len(calls) :
          calls[k].type = "macro" =>
              /\ k > 1
              /\ calls[k - 1].item = calls[k].item
              /\ calls[k - 1].type = "label"
              /\ ~Raised(calls[k - 1].outcome)
    /\ \A j, k \in 1..Len(calls) :
          (calls[j].item = calls[k].item /\ calls[j].type = calls[k].type) => j = k
    /\ \A i \in 1..Len(Work) :
          LabelRaised(i) =>
              /\ Len(CallsFor(i)) = 1
              /\ ~(bpc = "crashed" /\ idx = i)
              /\ Handled(i) =>
                    /\ InSeq(Work[i].name, printed)
                    /\ driver # "plain" =>
                          InSeq(LogRow(Work[i].name, Work[i].name, "Failed"), log)
              /\ (bpc = "done" /\ i < Len(Work) /\ Work[i + 1].readable) =>
                    CallsFor(i + 1) # <<>>

\* C14 witness: the run ended after 'label' raised for the first file and the
\* second file was worked on
C14_Witness ==
    /\ bpc = "done"
    /\ LabelRaised(1)
    /\ Len(CallsFor(1)) = 1
    /\ InSeq(Work[1].name, printed)
    /\ Len(CallsFor(2)) = 2

\* the output directory entries that came from work item i
Delivered(i) == SelectSeq(output_dir, LAMBDA e : e.src = Work[i].name)
RemovalRaised(i) == \E k \in 1..Len(calls) : calls[k].item = i /\ Raised(calls[k].outcome)

\* C15: in process_svs_files every .svs file whose copy into the temporary
\* folders succeeded is moved into the output directory under a generated DI_
\* name whether or not delete_associated_image raised for it; after a raising
\* 'label' removal the delivered copy is the input, byte for byte.
C15_DeliveredDespiteFailure ==
    \A i \in 1..Len(Work) :
        (idx > i /\ Work[i].readable /\ driver \in {"python", "s3", "plain"}) =>
            /\ Len(Delivered(i)) = 1
            /\ Delivered(i)[1].name[1] = "DI"
            /\ driver \in {"python", "s3"} => Delivered(i)[1].dir = Work[i].folder
            /\ LabelRaised(i) => Delivered(i)[1].data = Work[i].data

\* C15 witness: process_svs_files delivered, unchanged and still holding its
\* label page, a file for which the 'label' removal raised
C15_Witness ==
    /\ driver \in {"python", "s3"}
    /\ bpc = "done"
    /\ LabelRaised(1)
    /\ Len(Delivered(1)) = 1
    /\ Delivered(1)[1].data = Work[1].data
    /\ MatchSet(Delivered(1)[1].data, "label") # {}

\* the number of calls of deidentify_svs_file that have returned
Processed == IF bpc \in {"move", "crashed"} THEN idx ELSE idx - 1
\* the copy and both removals completed without raising for work item i
CompletedOk(i) ==
    /\ Work[i].readable
    /\ Len(CallsFor(i)) = 2
    /\ ~RemovalRaised(i)
LoggedSuccess(i) ==
    \E k \in 1..Len(log) :
        log[k].Original_file_name = Work[i].name /\ log[k].Status = "Success"

\* C16 (as stated): after any number of calls of deidentify_svs_file,
\* successful_files + failed_files is the number of files processed,
\* successful_files is the number of files whose copy and both removals
\* completed without raising, and each of those is logged with Status 'Success'.
C16_CountersMatch ==
    driver \in {"python", "s3"} =>
        /\ successful_files + failed_files = Processed
        /\ successful_files = Cardinality({i \in 1..Processed : CompletedOk(i)})
        /\ \A i \in 1..Processed : CompletedOk(i) => LoggedSuccess(i)

\* the unique_id inside a name made by generate_unique_filename
IdOf(name) == name[3][1] * 1000 + name[3][2] * 100 + name[3][3] * 10 + name[3][4]

\* C17 (as stated): for every file logged with Status 'Success' the
\* Deidentified_file_name in the log is the name under which the file was
\* moved into the output directory; per folder name the IDs of the moved
\* files strictly increase from 1 on, so no two files of a folder share a name.
C17_LoggedNameIsDeliveredName ==
    /\ \A i \in 1..Len(Work) :
          (idx > i /\ driver # "plain") =>
              \A k \in 1..Len(log) :
                  (log[k].Original_file_name = Work[i].name /\ log[k].Status = "Success") =>
                      /\ Len(Delivered(i)) = 1
                      /\ log[k].Deidentified_file_name = Delivered(i)[1].name
    /\ driver \in {"python", "s3"} =>
          \A j, k \in 1..Len(output_dir) :
              (j < k /\ output_dir[j].name[2] = output_dir[k].name[2]) =>
                  /\ 1 <= IdOf(output_dir[j].name)
                  /\ IdOf(output_dir[j].name) < IdOf(output_dir[k].name)

\* the record a log_list element refers to: every element appended by line 95
\* is a reference to the one dict created at line 74
Deref(ref) == IF ref = "log_dict" THEN log_dict ELSE ref
\* the files whose loop body has begun
Begun == IF bpc \in {"start", "done"} THEN idx - 1 ELSE idx

\* C18 (as stated): in deidentification.py, after n .svs files have been
\* processed log_list holds n records and the i-th record carries the i-th
\* file's own Original_file_name, Deidentified_file_name DI_000i.svs,
\* input_path and output_path, unchanged by the files processed later.
C18_LogListOwnRecords ==
    driver = "plain" =>
        /\ Len(log_list) = Begun
        /\ \A i \in 1..Len(log_list) :
              /\ Deref(log_list[i]).Original_file_name = Work[i].name
              /\ Deref(log_list[i]).Deidentified_file_name = PlainName(i)
              /\ Deref(log_list[i]).input_path = <<"in", Work[i].name>>
              /\ Deref(log_list[i]).output_path = <<"out", PlainName(i)>>

====
